---- MODULE Spec2Model ----
(***************************************************************************)
(* State-machine model of the touch-grass backend: the authentication      *)
(* controller (signup, login, getCurrentUser, logout), the auth and        *)
(* checkRole middleware, the kids router and the User / Kid collections.   *)
(*                                                                         *)
(* Strings the code inspects character by character (emails, family codes, *)
(* names, the Authorization header) are sequences of one-character         *)
(* strings.  An optional request field is <<>> when it is undefined and    *)
(* <<v>> when it carries the value v.  Each "await" of a handler is one    *)
(* action: the database operation it waits for together with the           *)
(* synchronous code that follows it.  The storage backend is taken to be   *)
(* available: a database operation fails only when a schema validator or   *)
(* the unique email index rejects it.                                      *)
(***************************************************************************)
EXTENDS Integers, Sequences, FiniteSets, TLC

VARIABLES users, kids, nextKid, procs, now, tokens, last

vars == <<users, kids, nextKid, procs, now, tokens, last>>

(***************************************************************************)
(* Bounds of the model.                                                    *)
(***************************************************************************)
NumProcs == 2
NumCodes == 2
MaxKids == 2
MaxTime == 2
MaxTokens == 1
MaxRemoved == 1
MaxHolders == 2

(***************************************************************************)
(* Program constants.                                                      *)
(***************************************************************************)
MinPasswordLength == 6
MaxNameLength == 50
KidMinNameLength == 2
KidMinAge == 1
KidMaxAge == 18
MaxInterests == 10
BearerLength == 7
JWT_EXPIRE == 2

JWT_SECRET == "service-secret"
OtherSecret == "other-secret"

NoId == 0

(***************************************************************************)
(* String helpers: String.prototype.toLowerCase / toUpperCase / trim.      *)
(***************************************************************************)
UpperChars == <<"A", "B", "C", "D", "E", "F", "K", "L", "O", "X">>
LowerChars == <<"a", "b", "c", "d", "e", "f", "k", "l", "o", "x">>
DigitChars == {"0", "1", "2", "3", "4", "5", "6", "7", "8", "9"}
Whitespace == {" "}

IndexOf(c, t) == CHOOSE i \in 1..Len(t) : t[i] = c

LowerChar(c) ==
    IF \E i \in 1..Len(UpperChars) : UpperChars[i] = c
    THEN LowerChars[IndexOf(c, UpperChars)] ELSE c

UpperChar(c) ==
    IF \E i \in 1..Len(LowerChars) : LowerChars[i] = c
    THEN UpperChars[IndexOf(c, LowerChars)] ELSE c

toLowerCase(s) == [i \in 1..Len(s) |-> LowerChar(s[i])]

toUpperCase(s) == [i \in 1..Len(s) |-> UpperChar(s[i])]

RECURSIVE trimStart(_)
trimStart(s) ==
    IF s # <<>> /\ Head(s) \in Whitespace THEN trimStart(Tail(s)) ELSE s

RECURSIVE trimEnd(_)
trimEnd(s) ==
    IF s # <<>> /\ s[Len(s)] \in Whitespace
    THEN trimEnd(SubSeq(s, 1, Len(s) - 1)) ELSE s

trim(s) == trimEnd(trimStart(s))

startsWith(s, prefix) ==
    /\ Len(s) >= Len(prefix)
    /\ SubSeq(s, 1, Len(prefix)) = prefix

(***************************************************************************)
(* The email pattern of the User schema:                                   *)
(*   /^\w+([\.-]?\w+)*@\w+([\.-]?\w+)*(\.\w{2,3})+$/                       *)
(***************************************************************************)
IsWordChar(c) ==
    \/ c \in DigitChars
    \/ c = "_"
    \/ \E i \in 1..Len(UpperChars) : UpperChars[i] = c \/ LowerChars[i] = c

\* \w+([\.-]?\w+)* : word characters with single "." or "-" between them.
IsDottedWord(s) ==
    /\ s # <<>>
    /\ IsWordChar(s[1])
    /\ IsWordChar(s[Len(s)])
    /\ \A i \in 1..Len(s) : IsWordChar(s[i]) \/ s[i] \in {".", "-"}
    /\ \A i \in 1..(Len(s) - 1) : IsWordChar(s[i]) \/ IsWordChar(s[i + 1])

\* \w+([\.-]?\w+)*(\.\w{2,3})+ : a dotted word, a dot, two or three word characters.
IsDomain(s) ==
    \E n \in {2, 3} :
        /\ Len(s) >= n + 2
        /\ s[Len(s) - n] = "."
        /\ \A i \in (Len(s) - n + 1)..Len(s) : IsWordChar(s[i])
        /\ IsDottedWord(SubSeq(s, 1, Len(s) - n - 1))

EmailMatches(s) ==
    \E i \in 1..Len(s) :
        /\ s[i] = "@"
        /\ IsDottedWord(SubSeq(s, 1, i - 1))
        /\ IsDomain(SubSeq(s, i + 1, Len(s)))

(***************************************************************************)
(* crypto.randomBytes(3).toString('hex').toUpperCase()                     *)
(***************************************************************************)
HexDigits == <<"0", "1", "2", "3", "4", "5", "6", "7",
               "8", "9", "a", "b", "c", "d", "e", "f">>

ByteToHex(b) == <<HexDigits[(b \div 16) + 1], HexDigits[(b % 16) + 1]>>

RECURSIVE toHex(_)
toHex(bytes) ==
    IF bytes = <<>> THEN <<>> ELSE ByteToHex(Head(bytes)) \o toHex(Tail(bytes))

\* A generator that returns the same bytes every time.
SameRandomBytes == {<<171, 205, 225>>}

\* The outcomes of randomBytes(3) the model draws from.
RandomBytes == {<<171, 205, 224 + i>> : i \in 1..NumCodes}

generateFamilyCodeFrom(bytes) == toUpperCase(toHex(bytes))

(***************************************************************************)
(* bcrypt: the digest of a plaintext under a salt, and its comparison.     *)
(***************************************************************************)
bcryptHash(plain, salt) == [salt |-> salt, of |-> plain]

bcryptCompare(candidate, digest) == bcryptHash(candidate, digest.salt) = digest

\* A comparison that accepts every candidate.
comparePasswordAlways(user, candidatePassword) == TRUE

comparePassword(user, candidatePassword) ==
    bcryptCompare(candidatePassword, user.password)

(***************************************************************************)
(* jsonwebtoken: sign and verify.                                          *)
(***************************************************************************)
jwtSign(id, role, secret, t) ==
    [id |-> id, role |-> role, iat |-> t, exp |-> t + JWT_EXPIRE, secret |-> secret]

\* The token signed with a fixed role instead of the user's.
generateTokenAsParent(id, role) == jwtSign(id, "parent", JWT_SECRET, now)

generateToken(id, role) == jwtSign(id, role, JWT_SECRET, now)

\* A verification that checks the signature and never the expiry.
jwtVerifyIgnoreExpiration(token, t) ==
    IF Len(token) # 1 \/ token[1].secret # JWT_SECRET THEN "JsonWebTokenError"
    ELSE "ok"

\* A verification that reports an expired token as an invalid one.
jwtVerifyOneError(token, t) ==
    IF Len(token) # 1 \/ token[1].secret # JWT_SECRET \/ t >= token[1].exp
    THEN "JsonWebTokenError"
    ELSE "ok"

\* The outcome of jwt.verify(token, JWT_SECRET) at time t: "ok" or the error name.
jwtVerify(token, t) ==
    IF Len(token) # 1 \/ token[1].secret # JWT_SECRET THEN "JsonWebTokenError"
    ELSE IF t >= token[1].exp THEN "TokenExpiredError"
    ELSE "ok"

(***************************************************************************)
(* Request fields and JavaScript truthiness.                               *)
(***************************************************************************)
None == <<>>
Some(v) == <<v>>

\* !field for a string field: undefined or the empty string.
IsFalsyString(f) == f = None \/ f[1] = <<>>

\* !field for a role name (a plain string).
IsFalsyName(f) == f = None \/ f[1] = ""

\* !field for a number: undefined or 0.
IsFalsyNumber(f) == f = None \/ f[1] = 0

\* Array.prototype.join
RECURSIVE Join(_, _)
Join(msgs, sep) ==
    IF msgs = <<>> THEN ""
    ELSE IF Len(msgs) = 1 THEN msgs[1]
    ELSE msgs[1] \o sep \o Join(Tail(msgs), sep)

\* The messages of the validators that failed, in schema order.
Failed(checks) == LET bad == SelectSeq(checks, LAMBDA c : ~c[1])
                  IN  [i \in 1..Len(bad) |-> bad[i][2]]

(***************************************************************************)
(* Inputs the model draws requests from.                                   *)
(***************************************************************************)
EmailA == <<"a", "@", "x", ".", "c", "o">>
EmailAUpper == <<" ", "A", "@", "x", ".", "c", "o">>
EmailB == <<"b", "@", "x", ".", "c", "o">>
EmailC == <<"c", "@", "x", ".", "c", "o">>
EmailBad == <<"a", "@", "x">>

Secret1 == <<"s", "e", "c", "r", "e", "t", "1">>
Secret2 == <<"s", "e", "c", "r", "e", "t", "2">>
Short5 == <<"a", "b", "c", "1", "2">>

NameAl == <<"A", "l">>
NameA == <<"A", " ">>

CodeLower1 == toHex(<<171, 205, 225>>)

SignupEmails ==
    {None, Some(<<>>), Some(EmailA), Some(EmailAUpper), Some(EmailB), Some(EmailC), Some(EmailBad)}
SignupPasswords == {None, Some(Short5), Some(Secret1)}
SignupRoles == {None, Some("parent"), Some("kid"), Some("admin")}
SignupCodes == {None, Some(CodeLower1)}
SignupNames == {None, Some(NameAl), Some(NameA)}
SignupAges == {None, Some(0), Some(10), Some(19)}

\* A request carries the kid fields only when it asks for the kid role.
SignupBodies ==
    {b \in [email : SignupEmails, password : SignupPasswords, role : SignupRoles,
            familyCode : SignupCodes, name : SignupNames, age : SignupAges] :
        b.role # Some("kid") =>
            b.familyCode = None /\ b.name = None /\ b.age = None}

NoBody ==
    [email |-> None, password |-> None, role |-> None,
     familyCode |-> None, name |-> None, age |-> None]

(***************************************************************************)
(* The collections.  users[i] is the User document with _id = i; kids is   *)
(* the set of Kid documents.                                               *)
(***************************************************************************)
UserIds == 1..Len(users)

\* User.findOne({ email }) : the ids of the matching documents.
UsersByEmail(email) == {i \in UserIds : users[i].email = email}

\* The query matching every document that has a family code at all.
UsersWithAnyFamilyCode(code) == {i \in UserIds : users[i].familyCode # <<>>}

\* User.findOne({ familyCode }) : the ids of the matching documents.  The
\* query has no sort and no role filter, so any matching document may be
\* the one returned.
UsersByFamilyCode(code) == {i \in UserIds : users[i].familyCode = code}

\* The place of a document that was removed from the collection: an _id is
\* never given out again, so the place stays and no query matches it.
RemovedUser ==
    [_id |-> NoId, email |-> <<"removed">>, password |-> bcryptHash(<<>>, NoId),
     role |-> "removed", familyCode |-> <<"removed">>, parent |-> NoId,
     name |-> None, kids |-> <<>>]

\* A lookup that still finds a document after it was removed.
UserEverStored(id) == id \in UserIds

\* User.findById(id)
UserExists(id) == id \in UserIds /\ users[id]._id = id

\* The email path declared without unique: true: no insert is refused.
NoUniqueIndex(doc) == FALSE

\* unique: true on the email path: the index refuses an insert whose email
\* another document holds (a duplicate key error).
DuplicateKey(doc) == UsersByEmail(doc.email) # {}

\* .select('-password')
WithoutPassword(u) == [f \in (DOMAIN u) \ {"password"} |-> u[f]]

\* Validators of the User schema, applied to the document as the setters left it.
UserValidationErrors(doc) ==
    Failed(<< <<EmailMatches(doc.email), "Please provide a valid email address">>,
              <<Len(doc.plain) >= MinPasswordLength, "Password must be at least 6 characters long">>,
              <<doc.role \in {"parent", "kid"}, "role is not a valid enum value">>,
              <<doc.name = None \/ Len(doc.name[1]) <= MaxNameLength, "Name cannot exceed 50 characters">> >>)

\* Validators of the Kid schema.
KidValidationErrors(doc) ==
    Failed(<< <<doc.name # None /\ doc.name[1] # <<>>, "Kid name is required">>,
              <<doc.name = None \/ doc.name[1] = <<>> \/ Len(doc.name[1]) >= KidMinNameLength,
                "Name must be at least 2 characters long">>,
              <<doc.name = None \/ Len(doc.name[1]) <= MaxNameLength, "Name cannot exceed 50 characters">>,
              <<doc.age # None, "Age is required">>,
              <<doc.age = None \/ doc.age[1] >= KidMinAge, "Age must be at least 1">>,
              <<doc.age = None \/ doc.age[1] <= KidMaxAge, "Age cannot exceed 18">>,
              <<Len(doc.interests) <= MaxInterests, "Cannot have more than 10 interests">> >>)

\* The setters of the name paths (trim: true).
TrimName(name) == IF name = None THEN None ELSE Some(trim(name[1]))

\* An update that appends the id twice.
PushKidTwice(us, id, kidId) ==
    IF id \in 1..Len(us) /\ us[id]._id = id
    THEN [us EXCEPT ![id].kids = Append(Append(@, kidId), kidId)]
    ELSE us

\* { $push: { kids: kidId } } on the User with _id = id.
PushKid(us, id, kidId) ==
    IF id \in 1..Len(us) /\ us[id]._id = id
    THEN [us EXCEPT ![id].kids = Append(@, kidId)]
    ELSE us

\* An update that leaves the array as it is.
PullNoKid(us, id, kidId) == us

\* An update that empties the array.
PullEveryKid(us, id, kidId) ==
    IF id \in 1..Len(us) /\ us[id]._id = id
    THEN [us EXCEPT ![id].kids = <<>>]
    ELSE us

\* { $pull: { kids: kidId } } on the User with _id = id.
PullKid(us, id, kidId) ==
    IF id \in 1..Len(us) /\ us[id]._id = id
    THEN [us EXCEPT ![id].kids = SelectSeq(@, LAMBDA k : k # kidId)]
    ELSE us

(***************************************************************************)
(* Responses.  last is the most recent response sent by any handler.       *)
(***************************************************************************)
\* op is the route that was asked for, by the middleware or handler that answered.
Response(op, by, req, status, message, token, data) ==
    [op |-> op, by |-> by, req |-> req, status |-> status, message |-> message,
     token |-> token, data |-> data]

Reject(op, by, req, status, message) == Response(op, by, req, status, message, None, None)

NoResponse == Reject("none", "none", NoBody, 0, "")

(***************************************************************************)
(* signup                                                                  *)
(***************************************************************************)
NoKidBody == [name |-> None, age |-> None, avatarColor |-> None, interests |-> None]

\* A request slot: the position of the handler and its local variables.
IdleProc ==
    [pc |-> "idle", body |-> NoBody, parentUser |-> None,
     userFamilyCode |-> None, user |-> None, kidDoc |-> None,
     header |-> None, reqUser |-> None, kidId |-> NoId, kbody |-> NoKidBody]

\* SignupCheck with the role check moved before the password length check.
SignupCheckRoleFirst(body) ==
    IF IsFalsyString(body.email) \/ IsFalsyString(body.password)
        THEN "Please provide email and password"
    ELSE IF ~IsFalsyName(body.role) /\ body.role[1] \notin {"parent", "kid"}
        THEN "Role must be either 'parent' or 'kid'"
    ELSE IF Len(body.password[1]) < MinPasswordLength
        THEN "Password must be at least 6 characters long"
    ELSE IF body.role = Some("kid") /\ IsFalsyString(body.familyCode)
        THEN "Family code is required for kid signup"
    ELSE IF body.role = Some("kid") /\ IsFalsyString(body.name)
        THEN "Name is required for kid signup"
    ELSE IF body.role = Some("kid") /\ IsFalsyNumber(body.age)
        THEN "Age is required for kid signup"
    ELSE ""

\* The synchronous checks of signup: the message of the first that fails, or "".
SignupCheck(body) ==
    IF IsFalsyString(body.email) \/ IsFalsyString(body.password)
        THEN "Please provide email and password"
    ELSE IF Len(body.password[1]) < MinPasswordLength
        THEN "Password must be at least 6 characters long"
    ELSE IF ~IsFalsyName(body.role) /\ body.role[1] \notin {"parent", "kid"}
        THEN "Role must be either 'parent' or 'kid'"
    ELSE IF body.role = Some("kid") /\ IsFalsyString(body.familyCode)
        THEN "Family code is required for kid signup"
    ELSE IF body.role = Some("kid") /\ IsFalsyString(body.name)
        THEN "Name is required for kid signup"
    ELSE IF body.role = Some("kid") /\ IsFalsyNumber(body.age)
        THEN "Age is required for kid signup"
    ELSE ""

NormalizeEmail(email) == trim(toLowerCase(email))

\* No response is on the wire.
Quiet == last = NoResponse

\* A new request is served by the first free slot.
FreeSlot(p) ==
    /\ Quiet
    /\ procs[p].pc = "idle"
    /\ \A q \in DOMAIN procs : q < p => procs[q].pc # "idle"

\* The handler in slot p is at the await named pc.
At(p, pc) == Quiet /\ procs[p].pc = pc

SignupBegin(p, body) ==
    /\ FreeSlot(p)
    /\ IF SignupCheck(body) # ""
       THEN /\ last' = Reject("signup", "signup", body, 400, SignupCheck(body))
            /\ UNCHANGED procs
       ELSE /\ procs' = [procs EXCEPT ![p] = [IdleProc EXCEPT !.pc = "findEmail", !.body = body]]
            /\ last' = NoResponse
    /\ UNCHANGED <<users, kids, nextKid, now, tokens>>

SignupFindEmail(p) ==
    LET body == procs[p].body
        existingUser == UsersByEmail(NormalizeEmail(body.email[1]))
    IN  /\ At(p, "findEmail")
        /\ IF existingUser # {}
           THEN /\ last' = Reject("signup", "signup", body, 409, "User with this email already exists")
                /\ procs' = [procs EXCEPT ![p] = IdleProc]
           ELSE /\ procs' = [procs EXCEPT ![p].pc =
                                IF body.role = Some("kid") THEN "findParent" ELSE "genCode"]
                /\ last' = NoResponse
        /\ UNCHANGED <<users, kids, nextKid, now, tokens>>

SignupFindParent(p) ==
    LET body == procs[p].body
        found == UsersByFamilyCode(toUpperCase(body.familyCode[1]))
    IN  /\ At(p, "findParent")
        /\ IF found = {}
           THEN /\ last' = Reject("signup", "signup", body, 400,
                                  "Invalid family code. Please check with your parent.")
                /\ procs' = [procs EXCEPT ![p] = IdleProc]
           ELSE /\ \E i \in found :
                     procs' = [procs EXCEPT ![p].pc = "createUser",
                                            ![p].parentUser = Some(users[i])]
                /\ last' = NoResponse
        /\ UNCHANGED <<users, kids, nextKid, now, tokens>>

\* One turn of the loop of lines 101-105, the generator returning bytes.
SignupGenCodeWith(p, bytes) ==
    LET code == generateFamilyCodeFrom(bytes)
        existing == UsersByFamilyCode(code)
    IN  /\ At(p, "genCode")
        /\ IF existing = {}
           THEN procs' = [procs EXCEPT ![p].pc = "createUser",
                                       ![p].userFamilyCode = Some(code)]
           ELSE procs' = [procs EXCEPT ![p].userFamilyCode = Some(code)]
        /\ last' = NoResponse
        /\ UNCHANGED <<users, kids, nextKid, now, tokens>>

SignupGenCode(p) == \E bytes \in RandomBytes : SignupGenCodeWith(p, bytes)

\* The role-shaped profile of the signup response.
SignupData(user, kidDoc, age) ==
    [id |-> user._id, email |-> user.email, role |-> user.role,
     familyCode |-> IF user.role = "parent" THEN Some(user.familyCode) ELSE None,
     name |-> IF user.role = "kid" THEN user.name ELSE None,
     parentId |-> IF user.role = "kid" THEN user.parent ELSE NoId,
     kidId |-> IF user.role = "kid" /\ kidDoc # None THEN kidDoc[1]._id ELSE NoId,
     age |-> IF user.role = "kid" THEN age ELSE None]

\* Lines 137-167: issue the token and send the 201 response.
SignupRespond(p, user, kidDoc) ==
    LET token == generateToken(user._id, user.role)
    IN  /\ last' = Response("signup", "signup", procs[p].body, 201, "User created successfully",
                            Some(token), Some(SignupData(user, kidDoc, procs[p].body.age)))
        /\ procs' = [procs EXCEPT ![p] = IdleProc]

\* A document that never carries the parent reference.
SignupUserDocNoParent(p) ==
    LET body == procs[p].body
        isKid == body.role = Some("kid")
    IN  [email |-> trim(toLowerCase(NormalizeEmail(body.email[1]))),
         plain |-> body.password[1],
         role |-> IF IsFalsyName(body.role) THEN "parent" ELSE body.role[1],
         familyCode |-> IF isKid THEN procs[p].parentUser[1].familyCode
                        ELSE procs[p].userFamilyCode[1],
         parent |-> NoId,
         name |-> IF isKid THEN TrimName(body.name) ELSE None]

\* The document User.create is given, as the schema setters leave it.
SignupUserDoc(p) ==
    LET body == procs[p].body
        isKid == body.role = Some("kid")
        parentUser == procs[p].parentUser
    IN  [email |-> trim(toLowerCase(NormalizeEmail(body.email[1]))),
         plain |-> body.password[1],
         role |-> IF IsFalsyName(body.role) THEN "parent" ELSE body.role[1],
         familyCode |-> IF isKid THEN parentUser[1].familyCode
                        ELSE procs[p].userFamilyCode[1],
         parent |-> IF parentUser # None THEN parentUser[1]._id ELSE NoId,
         name |-> IF isKid THEN TrimName(body.name) ELSE None]

\* The stored User: the password is hashed by the pre-save hook under a fresh salt.
NewUser(doc, id) ==
    [_id |-> id, email |-> doc.email, password |-> bcryptHash(doc.plain, id),
     role |-> doc.role, familyCode |-> doc.familyCode, parent |-> doc.parent,
     name |-> doc.name, kids |-> <<>>]

SignupCreateUser(p) ==
    /\ At(p, "createUser")
    /\ \E doc \in {SignupUserDoc(p)} :
       \E errors \in {UserValidationErrors(doc)} :
       \E user \in {NewUser(doc, Len(users) + 1)} :
       LET body == procs[p].body
       IN  /\ IF errors # <<>>
               THEN /\ last' = Reject("signup", "signup", body, 400, Join(errors, ", "))
                    /\ procs' = [procs EXCEPT ![p] = IdleProc]
                    /\ UNCHANGED users
               ELSE IF DuplicateKey(doc)
               THEN \* the duplicate key error is not a ValidationError
                    /\ last' = Reject("signup", "signup", body, 500, "Error creating user")
                    /\ procs' = [procs EXCEPT ![p] = IdleProc]
                    /\ UNCHANGED users
               ELSE /\ users' = Append(users, user)
                    /\ IF body.role = Some("kid") /\ procs[p].parentUser # None
                       THEN /\ procs' = [procs EXCEPT ![p].pc = "createKid",
                                                      ![p].user = Some(WithoutPassword(user))]
                            /\ last' = NoResponse
                       ELSE SignupRespond(p, user, None)
           /\ UNCHANGED <<kids, nextKid, now, tokens>>

DefaultAvatarColor == "from-blue-400 to-purple-500"

\* The stored Kid.
NewKid(doc, id) ==
    [_id |-> id, name |-> doc.name[1], age |-> doc.age[1],
     avatarColor |-> doc.avatarColor, interests |-> doc.interests,
     parent |-> doc.parent, createdAt |-> now]

SignupCreateKid(p) ==
    LET body == procs[p].body
        doc == [name |-> TrimName(body.name), age |-> body.age,
                avatarColor |-> DefaultAvatarColor, interests |-> <<>>,
                parent |-> procs[p].parentUser[1]._id]
        errors == KidValidationErrors(doc)
        kidDoc == NewKid(doc, nextKid)
    IN  /\ At(p, "createKid")
        /\ IF errors # <<>>
           THEN /\ last' = Reject("signup", "signup", body, 400, Join(errors, ", "))
                /\ procs' = [procs EXCEPT ![p] = IdleProc]
                /\ UNCHANGED <<kids, nextKid>>
           ELSE /\ nextKid <= MaxKids
                /\ kids' = kids \cup {kidDoc}
                /\ nextKid' = nextKid + 1
                /\ procs' = [procs EXCEPT ![p].pc = "pushKid", ![p].kidDoc = Some(kidDoc)]
                /\ last' = NoResponse
        /\ UNCHANGED <<users, now, tokens>>

SignupPushKid(p) ==
    /\ At(p, "pushKid")
    /\ users' = PushKid(users, procs[p].parentUser[1]._id, procs[p].kidDoc[1]._id)
    /\ SignupRespond(p, procs[p].user[1], procs[p].kidDoc)
    /\ UNCHANGED <<kids, nextKid, now, tokens>>

SignupRequest(bodies) ==
    \E p \in DOMAIN procs :
        FreeSlot(p) /\ \E body \in bodies : SignupBegin(p, body)

SignupStep ==
    \E p \in DOMAIN procs :
        \/ SignupFindEmail(p)
        \/ SignupFindParent(p)
        \/ SignupGenCode(p)
        \/ SignupCreateUser(p)
        \/ SignupCreateKid(p)
        \/ SignupPushKid(p)

(***************************************************************************)
(* login and logout                                                        *)
(***************************************************************************)
LoginData(user) == [id |-> user._id, email |-> user.email, role |-> user.role]

Login(p, body) ==
    LET found == UsersByEmail(NormalizeEmail(body.email[1]))
    IN  /\ FreeSlot(p)
        /\ IF IsFalsyString(body.email) \/ IsFalsyString(body.password)
           THEN last' = Reject("login", "login", body, 400, "Please provide email and password")
           ELSE IF found = {}
           THEN last' = Reject("login", "login", body, 401, "Invalid email or password")
           ELSE \E i \in found :
                  IF ~comparePassword(users[i], body.password[1])
                  THEN last' = Reject("login", "login", body, 401, "Invalid email or password")
                  ELSE last' = Response("login", "login", body, 200, "Login successful",
                                        Some(generateToken(users[i]._id, users[i].role)),
                                        Some(LoginData(users[i])))
        /\ UNCHANGED <<users, kids, nextKid, procs, now, tokens>>

Logout(p) ==
    /\ FreeSlot(p)
    /\ last' = Reject("logout", "logout", NoBody, 200,
                      "Logout successful. Please remove the token from client storage.")
    /\ UNCHANGED <<users, kids, nextKid, procs, now, tokens>>

(***************************************************************************)
(* The auth middleware.                                                    *)
(***************************************************************************)
Bearer == <<"B", "e", "a", "r", "e", "r", " ">>

AuthReject(message) == [pass |-> FALSE, status |-> 401, message |-> message, user |-> None]

\* The outcome of auth for a request with this Authorization header: the
\* 401 it answers, or the identity it attaches before calling next().
auth(header) ==
    IF IsFalsyString(header)
        THEN AuthReject("No authorization token provided")
    ELSE IF ~startsWith(header[1], Bearer)
        THEN AuthReject("Invalid token format. Use: Bearer <token>")
    ELSE LET token == SubSeq(header[1], BearerLength + 1, Len(header[1]))
         IN  IF token = <<>>
                 THEN AuthReject("No token found")
             ELSE IF jwtVerify(token, now) = "JsonWebTokenError"
                 THEN AuthReject("Invalid token")
             ELSE IF jwtVerify(token, now) = "TokenExpiredError"
                 THEN AuthReject("Token has expired")
             ELSE IF ~UserExists(token[1].id)
                 THEN AuthReject("User not found")
             ELSE [pass |-> TRUE, status |-> 0, message |-> "",
                   user |-> Some(WithoutPassword(users[token[1].id]))]

(***************************************************************************)
(* The checkRole middleware.                                               *)
(***************************************************************************)
Includes(seq, x) == \E i \in 1..Len(seq) : seq[i] = x

\* A role check that lets every authenticated user through.
checkRoleAnyUser(allowedRoles, reqUser) ==
    IF reqUser = None
        THEN [pass |-> FALSE, status |-> 401, message |-> "User not authenticated"]
    ELSE [pass |-> TRUE, status |-> 0, message |-> ""]

checkRole(allowedRoles, reqUser) ==
    IF reqUser = None
        THEN [pass |-> FALSE, status |-> 401, message |-> "User not authenticated"]
    ELSE IF ~Includes(allowedRoles, reqUser[1].role)
        THEN [pass |-> FALSE, status |-> 403,
              message |-> "Access denied. Only " \o Join(allowedRoles, " or ")
                          \o " can perform this action"]
    ELSE [pass |-> TRUE, status |-> 0, message |-> ""]

\* checkRole mounted on a request whose context carries reqUser.
RoleCheck(p, allowedRoles, reqUser) ==
    LET r == checkRole(allowedRoles, reqUser)
        req == [allowedRoles |-> allowedRoles, reqUser |-> reqUser]
    IN  /\ FreeSlot(p)
        /\ last' = IF r.pass THEN Reject("checkRole", "next", req, 0, "")
                   ELSE Reject("checkRole", "checkRole", req, r.status, r.message)
        /\ UNCHANGED <<users, kids, nextKid, procs, now, tokens>>

(***************************************************************************)
(* The protected routes: GET /api/auth/me behind auth, and the kids router *)
(* behind auth and checkRole('parent').                                    *)
(***************************************************************************)
KidRoutes == {"addKid", "getKids", "getKid", "updateKid", "deleteKid"}
Routes == KidRoutes \cup {"me"}

\* The synchronous checks of addKid: the message of the first that fails, or "".
AddKidCheck(kbody) ==
    IF IsFalsyString(kbody.name) \/ IsFalsyNumber(kbody.age) \/ kbody.interests = None
        THEN "Please provide name, age, and interests"
    ELSE IF Len(kbody.interests[1]) = 0
        THEN "Interests must be a non-empty array"
    ELSE ""

\* The request reaches the handler of the route: its synchronous start.
Handle(p, route, header, reqUser, kidId, kbody) ==
    IF route = "addKid" /\ AddKidCheck(kbody) # ""
    THEN /\ last' = Reject(route, route, [header |-> header, kbody |-> kbody],
                           400, AddKidCheck(kbody))
         /\ UNCHANGED procs
    ELSE /\ procs' = [procs EXCEPT ![p] =
                        [IdleProc EXCEPT !.pc = route, !.header = header,
                                         !.reqUser = reqUser, !.kidId = kidId,
                                         !.kbody = kbody]]
         /\ last' = NoResponse

\* The parameters and body the handler of a route reads.
ParamsOf(route, kidIds, kbodies) ==
    [kidId : IF route \in {"getKid", "updateKid", "deleteKid"} THEN kidIds ELSE {NoId},
     kbody : IF route \in {"addKid", "updateKid"} THEN kbodies ELSE {NoKidBody}]

Request(p, route, header, kidIds, kbodies) ==
    LET a == auth(header)
        r == checkRole(<<"parent">>, a.user)
        req == [header |-> header, kbody |-> NoKidBody]
    IN  /\ FreeSlot(p)
        /\ IF ~a.pass
           THEN /\ last' = Reject(route, "auth", req, a.status, a.message)
                /\ UNCHANGED procs
           ELSE IF route \in KidRoutes /\ ~r.pass
           THEN /\ last' = Reject(route, "checkRole", req, r.status, r.message)
                /\ UNCHANGED procs
           ELSE \E q \in ParamsOf(route, kidIds, kbodies) :
                    Handle(p, route, header, a.user, q.kidId, q.kbody)
        /\ UNCHANGED <<users, kids, nextKid, now, tokens>>

(***************************************************************************)
(* getCurrentUser                                                          *)
(***************************************************************************)
CurrentUserData(user) ==
    [id |-> user._id, email |-> user.email, role |-> user.role,
     familyCode |-> IF user.role = "parent" THEN Some(user.familyCode) ELSE None,
     kids |-> IF user.role = "parent" THEN user.kids ELSE <<>>,
     name |-> IF user.role = "kid" THEN user.name ELSE None,
     parent |-> IF user.role = "kid" THEN user.parent ELSE NoId]

Finish(p, response) ==
    /\ last' = response
    /\ procs' = [procs EXCEPT ![p] = IdleProc]

ReqOf(p) == [header |-> procs[p].header, kbody |-> procs[p].kbody]

GetCurrentUser(p) ==
    LET id == procs[p].reqUser[1]._id
    IN  /\ At(p, "me")
        /\ IF ~UserExists(id)
           THEN Finish(p, Reject("me", "me", ReqOf(p), 404, "User not found"))
           ELSE Finish(p, Response("me", "me", ReqOf(p), 200, "", None,
                                   Some(CurrentUserData(WithoutPassword(users[id])))))
        /\ UNCHANGED <<users, kids, nextKid, now, tokens>>

(***************************************************************************)
(* The kid controller.                                                     *)
(***************************************************************************)
\* Kid.find / Kid.findOne({ _id, parent })
KidsOf(parentId) == {k \in kids : k.parent = parentId}
\* A lookup by _id alone.
KidById(kidId, parentId) == {k \in kids : k._id = kidId}

OwnKid(kidId, parentId) == {k \in kids : k._id = kidId /\ k.parent = parentId}

\* .sort({ createdAt: -1 }) : the orders the sort may return.
SortedByCreatedAtDesc(S) ==
    {seq \in [1..Cardinality(S) -> S] :
        /\ \A i, j \in 1..Cardinality(S) : i # j => seq[i] # seq[j]
        /\ \A i, j \in 1..Cardinality(S) : i < j => seq[i].createdAt >= seq[j].createdAt}

AddKidCreate(p) ==
    LET kbody == procs[p].kbody
        doc == [name |-> TrimName(kbody.name), age |-> kbody.age,
                avatarColor |-> IF IsFalsyName(kbody.avatarColor) THEN DefaultAvatarColor
                                ELSE kbody.avatarColor[1],
                interests |-> kbody.interests[1],
                parent |-> procs[p].reqUser[1]._id]
        errors == KidValidationErrors(doc)
        kid == NewKid(doc, nextKid)
    IN  /\ At(p, "addKid")
        /\ IF errors # <<>>
           THEN /\ Finish(p, Reject("addKid", "addKid", ReqOf(p), 400, Join(errors, ", ")))
                /\ UNCHANGED <<kids, nextKid>>
           ELSE /\ nextKid <= MaxKids
                /\ kids' = kids \cup {kid}
                /\ nextKid' = nextKid + 1
                /\ procs' = [procs EXCEPT ![p].pc = "addKid.push", ![p].kidDoc = Some(kid)]
                /\ last' = NoResponse
        /\ UNCHANGED <<users, now, tokens>>

AddKidPush(p) ==
    /\ At(p, "addKid.push")
    /\ users' = PushKid(users, procs[p].reqUser[1]._id, procs[p].kidDoc[1]._id)
    /\ Finish(p, Response("addKid", "addKid", ReqOf(p), 201, "Kid added successfully",
                          None, Some(procs[p].kidDoc[1])))
    /\ UNCHANGED <<kids, nextKid, now, tokens>>

GetKids(p) ==
    /\ At(p, "getKids")
    /\ \E data \in SortedByCreatedAtDesc(KidsOf(procs[p].reqUser[1]._id)) :
         Finish(p, Response("getKids", "getKids", ReqOf(p), 200, "", None, Some(data)))
    /\ UNCHANGED <<users, kids, nextKid, now, tokens>>

GetKid(p) ==
    LET found == OwnKid(procs[p].kidId, procs[p].reqUser[1]._id)
    IN  /\ At(p, "getKid")
        /\ IF found = {}
           THEN Finish(p, Reject("getKid", "getKid", ReqOf(p), 404, "Kid not found"))
           ELSE \E kid \in found :
                  Finish(p, Response("getKid", "getKid", ReqOf(p), 200, "", None, Some(kid)))
        /\ UNCHANGED <<users, kids, nextKid, now, tokens>>

\* Lines 149-160 of updateKid: the fields the request provides are assigned.
Assign(kid, kbody) ==
    [kid EXCEPT !.name = IF kbody.name # None THEN trim(kbody.name[1]) ELSE @,
                !.age = IF kbody.age # None THEN kbody.age[1] ELSE @,
                !.avatarColor = IF kbody.avatarColor # None THEN kbody.avatarColor[1] ELSE @,
                !.interests = IF kbody.interests # None THEN kbody.interests[1] ELSE @]

UpdateKidFind(p) ==
    LET kbody == procs[p].kbody
        found == OwnKid(procs[p].kidId, procs[p].reqUser[1]._id)
    IN  /\ At(p, "updateKid")
        /\ IF found = {}
           THEN Finish(p, Reject("updateKid", "updateKid", ReqOf(p), 404, "Kid not found"))
           ELSE IF kbody.interests # None /\ Len(kbody.interests[1]) = 0
           THEN Finish(p, Reject("updateKid", "updateKid", ReqOf(p), 400,
                                 "Interests must be a non-empty array"))
           ELSE /\ \E kid \in found :
                     procs' = [procs EXCEPT ![p].pc = "updateKid.save",
                                            ![p].kidDoc = Some(Assign(kid, kbody))]
                /\ last' = NoResponse
        /\ UNCHANGED <<users, kids, nextKid, now, tokens>>

UpdateKidSave(p) ==
    LET kid == procs[p].kidDoc[1]
        errors == KidValidationErrors([kid EXCEPT !.name = Some(@), !.age = Some(@)])
        stored == {k \in kids : k._id = kid._id}
    IN  /\ At(p, "updateKid.save")
        /\ IF errors # <<>>
           THEN /\ Finish(p, Reject("updateKid", "updateKid", ReqOf(p), 400, Join(errors, ", ")))
                /\ UNCHANGED kids
           ELSE IF stored = {}
           THEN \* the document was deleted meanwhile: save() throws
                /\ Finish(p, Reject("updateKid", "updateKid", ReqOf(p), 500, "Failed to update kid"))
                /\ UNCHANGED kids
           ELSE /\ kids' = (kids \ stored) \cup {Assign(k, procs[p].kbody) : k \in stored}
                /\ Finish(p, Response("updateKid", "updateKid", ReqOf(p), 200,
                                      "Kid updated successfully", None, Some(kid)))
        /\ UNCHANGED <<users, nextKid, now, tokens>>

DeleteKidFind(p) ==
    LET found == OwnKid(procs[p].kidId, procs[p].reqUser[1]._id)
    IN  /\ At(p, "deleteKid")
        /\ IF found = {}
           THEN /\ Finish(p, Reject("deleteKid", "deleteKid", ReqOf(p), 404, "Kid not found"))
                /\ UNCHANGED kids
           ELSE /\ kids' = kids \ found
                /\ procs' = [procs EXCEPT ![p].pc = "deleteKid.pull"]
                /\ last' = NoResponse
        /\ UNCHANGED <<users, nextKid, now, tokens>>

DeleteKidPull(p) ==
    /\ At(p, "deleteKid.pull")
    /\ users' = PullKid(users, procs[p].reqUser[1]._id, procs[p].kidId)
    /\ Finish(p, Reject("deleteKid", "deleteKid", ReqOf(p), 200, "Kid deleted successfully"))
    /\ UNCHANGED <<kids, nextKid, now, tokens>>

(***************************************************************************)
(* The environment: time passes, and clients keep the tokens they are sent.*)
(***************************************************************************)
Tick ==
    /\ Quiet
    /\ now < MaxTime
    /\ now' = now + 1
    /\ last' = NoResponse
    /\ UNCHANGED <<users, kids, nextKid, procs, tokens>>

KeepToken(limit) ==
    /\ last.token # None
    /\ Cardinality(tokens) < limit
    /\ last.token[1] \notin tokens
    /\ tokens' = tokens \cup {last.token[1]}
    /\ UNCHANGED <<users, kids, nextKid, procs, now, last>>

ClientKeepsToken == KeepToken(MaxTokens)

\* A User document is removed from the collection by something other than
\* this API (no route deletes a User); auth and getCurrentUser both provide
\* for it.
UserRemoved ==
    /\ Quiet
    /\ Cardinality({i \in UserIds : users[i] = RemovedUser}) < MaxRemoved
    /\ \E i \in UserIds :
         /\ users[i] # RemovedUser
         /\ users' = [users EXCEPT ![i] = RemovedUser]
    /\ UNCHANGED <<kids, nextKid, procs, now, tokens, last>>

(***************************************************************************)
(* Requests the environment sends.                                         *)
(***************************************************************************)
\* Tokens signed with a secret that is not the service's: any payload, with
\* a claimed expiry in the future or in the past.
ForgedTokens ==
    {jwtSign(id, "parent", OtherSecret, t) :
        id \in UserIds, t \in {now, now - JWT_EXPIRE}}

Garbage == <<"x", "y">>

Headers ==
    {None, Some(<<"B", "a", "s", "i", "c", " ", "x">>), Some(Bearer),
     Some(Bearer \o Garbage)}
    \cup {Some(Bearer \o <<t>>) : t \in tokens \cup ForgedTokens}

NameBo == <<" ", "B", "o">>

KidBodies ==
    [name : {None, Some(NameAl)}, age : {None, Some(10)},
     avatarColor : {None}, interests : {None, Some(<<>>), Some(<<"art">>)}]

KidUpdates ==
    [name : {None, Some(NameBo)}, age : {None, Some(19)},
     avatarColor : {None}, interests : {None, Some(<<>>)}]

KidIdInputs == 1..MaxKids

ProtectedRequest ==
    \E p \in DOMAIN procs :
        FreeSlot(p) /\ \E route \in Routes : \E header \in Headers :
            Request(p, route, header, KidIdInputs,
                    IF route = "updateKid" THEN KidUpdates ELSE KidBodies)

HandlerStep ==
    \E p \in DOMAIN procs :
        \/ GetCurrentUser(p)
        \/ AddKidCreate(p)
        \/ AddKidPush(p)
        \/ GetKids(p)
        \/ GetKid(p)
        \/ UpdateKidFind(p)
        \/ UpdateKidSave(p)
        \/ DeleteKidFind(p)
        \/ DeleteKidPull(p)

LoginBodies ==
    [email : {None, Some(EmailA), Some(EmailAUpper), Some(EmailB)},
     password : {None, Some(Secret1), Some(Secret2)}]

LoginRequest ==
    \E p \in DOMAIN procs : FreeSlot(p) /\ \E body \in LoginBodies : Login(p, body)

AllowedRoleSets == {<<>>, <<"parent">>, <<"kid">>, <<"parent", "kid">>}

LogoutRequest == \E p \in DOMAIN procs : Logout(p)

RoleCheckRequest ==
    \E p \in DOMAIN procs :
        FreeSlot(p) /\ \E allowedRoles \in AllowedRoleSets :
            \E reqUser \in {None} \cup {Some(WithoutPassword(users[i])) : i \in UserIds} :
                RoleCheck(p, allowedRoles, reqUser)

\* Signup requests of the access specification: all of them well-formed.
AccessBodies ==
    {b \in [email : {Some(EmailA), Some(EmailB)}, password : {Some(Secret1), Some(Secret2)},
            role : {None, Some("kid")}, familyCode : {None, Some(CodeLower1)},
            name : {None, Some(NameAl)}, age : {None, Some(10)}] :
        IF b.role = Some("kid")
        THEN b.familyCode # None /\ b.name # None /\ b.age # None
        ELSE b.familyCode = None /\ b.name = None /\ b.age = None}

\* Signup requests of the race specification.
RaceBodies ==
    {b \in SignupBodies :
        /\ b.email \in {None, Some(EmailA), Some(EmailAUpper), Some(EmailB)}
        /\ b.role # Some("parent")
        /\ b.name # Some(NameA)
        /\ b.age \in {None, Some(10)}}

(***************************************************************************)
(* The system.                                                             *)
(***************************************************************************)
\* The response on the wire is handed to the client; the model observes one
\* response at a time.
Deliver ==
    /\ last # NoResponse
    /\ last' = NoResponse
    /\ UNCHANGED <<users, kids, nextKid, procs, now, tokens>>

InitWith(slots) ==
    /\ users = <<>>
    /\ kids = {}
    /\ nextKid = 1
    /\ procs = [p \in 1..slots |-> IdleProc]
    /\ now = 0
    /\ tokens = {}
    /\ last = NoResponse

\* Signups served one at a time, over every request body.
Init == InitWith(1)

Next ==
    \/ Deliver
    \/ SignupRequest(SignupBodies)
    \/ SignupStep

Spec == Init /\ [][Next]_vars

\* Concurrent signups.
InitRace == InitWith(NumProcs)

NextRace ==
    \/ Deliver
    \/ SignupRequest(RaceBodies)
    \/ SignupStep

SpecRace == InitRace /\ [][NextRace]_vars

\* The whole API with time and tokens, requests served one at a time.
NextAccess ==
    \/ Deliver
    \/ ClientKeepsToken
    \/ Tick
    \/ SignupRequest(AccessBodies)
    \/ SignupStep
    \/ LoginRequest
    \/ LogoutRequest
    \/ ProtectedRequest
    \/ HandlerStep
    \/ RoleCheckRequest

SpecAccess == Init /\ [][NextAccess]_vars

\* GET /api/auth/me while User documents may be removed from the collection.
RemovedBodies == {b \in AccessBodies : b.role = None /\ b.password = Some(Secret1)}

MeRequest ==
    \E p \in DOMAIN procs :
        FreeSlot(p) /\ \E header \in Headers :
            Request(p, "me", header, KidIdInputs, KidBodies)

MeStep == \E p \in DOMAIN procs : GetCurrentUser(p)

NextRemoved ==
    \/ Deliver
    \/ ClientKeepsToken
    \/ Tick
    \/ SignupRequest(RemovedBodies)
    \/ SignupStep
    \/ MeRequest
    \/ MeStep
    \/ UserRemoved

SpecRemoved == Init /\ [][NextRemoved]_vars

\* Parent signups one at a time, more of them than there are family codes.
\* The event loop runs every continuation that is ready, a response is
\* delivered, and the generator returns every value again and again.
CodeBodies ==
    {b \in SignupBodies :
        /\ b.email \in {Some(EmailA), Some(EmailB), Some(EmailC)}
        /\ b.password = Some(Secret1)
        /\ b.role \in {None, Some("parent")}}

CodeStep ==
    \E p \in DOMAIN procs :
        \/ SignupFindEmail(p)
        \/ SignupGenCode(p)
        \/ SignupCreateUser(p)

LoopLeaves(bytes) ==
    \E p \in DOMAIN procs :
        SignupGenCodeWith(p, bytes) /\ procs'[p].pc # "genCode"

NextCodes ==
    \/ Deliver
    \/ SignupRequest(CodeBodies)
    \/ CodeStep

FairCodes ==
    /\ WF_vars(Deliver)
    /\ WF_vars(\E p \in DOMAIN procs : SignupFindEmail(p))
    /\ WF_vars(\E p \in DOMAIN procs : SignupCreateUser(p))
    /\ \A bytes \in RandomBytes : SF_vars(LoopLeaves(bytes))

SpecCodes == Init /\ [][NextCodes]_vars /\ FairCodes

\* The kids router used by several parents, requests served one at a time.
KidsSignupBodies ==
    {b \in AccessBodies : b.password = Some(Secret1) /\ (b.role = Some("kid") => b.email = Some(EmailB))}

KidsHeaders == {Some(Bearer \o <<t>>) : t \in tokens}

KidsBodies == {b \in KidBodies : AddKidCheck(b) = ""}

KidsUpdates == {b \in KidUpdates : b.name # None /\ b.age = None /\ b.interests = None}

ParentsKeepTokens == KeepToken(MaxHolders)

KidRequest ==
    \E p \in DOMAIN procs :
        FreeSlot(p) /\ \E route \in KidRoutes : \E header \in KidsHeaders :
            Request(p, route, header, KidIdInputs,
                    IF route = "updateKid" THEN KidsUpdates ELSE KidsBodies)

KidStep ==
    \E p \in DOMAIN procs :
        \/ AddKidCreate(p)
        \/ AddKidPush(p)
        \/ GetKids(p)
        \/ GetKid(p)
        \/ UpdateKidFind(p)
        \/ UpdateKidSave(p)
        \/ DeleteKidFind(p)
        \/ DeleteKidPull(p)

NextKids ==
    \/ Deliver
    \/ ParentsKeepTokens
    \/ SignupRequest(KidsSignupBodies)
    \/ SignupStep
    \/ KidRequest
    \/ KidStep

SpecKids == Init /\ [][NextKids]_vars

\* The kids router and signup, requests served concurrently.
NextKidsRace ==
    \/ Deliver
    \/ ClientKeepsToken
    \/ SignupRequest(KidsSignupBodies)
    \/ SignupStep
    \/ KidRequest
    \/ KidStep

SpecKidsRace == InitRace /\ [][NextKidsRace]_vars

(***************************************************************************)
(* Helpers of the properties.                                              *)
(***************************************************************************)
SignupStages == {"findEmail", "findParent", "genCode", "createUser", "createKid", "pushKid"}

\* A request field that is missing: not sent, or sent empty.
FieldMissing(f) == f = None \/ f[1] = <<>>
NumberMissing(f) == f = None \/ f[1] = 0

RegisteredEmails(us) == {us[i].email : i \in 1..Len(us)}

(***************************************************************************)
(* C1  Validation order of signup.                                         *)
(***************************************************************************)
\* The first of the checks (1)..(4) that a body fails, 0 when it passes all:
\* 1 email or password missing, 2 password shorter than 6, 3 role given and
\* not parent or kid, 4 / 5 / 6 kid without family code / name / age.
C1_FirstFailure(b) ==
    IF FieldMissing(b.email) \/ FieldMissing(b.password) THEN 1
    ELSE IF Len(b.password[1]) < 6 THEN 2
    ELSE IF b.role # None /\ b.role[1] \notin {"parent", "kid"} THEN 3
    ELSE IF b.role = Some("kid") /\ FieldMissing(b.familyCode) THEN 4
    ELSE IF b.role = Some("kid") /\ FieldMissing(b.name) THEN 5
    ELSE IF b.role = Some("kid") /\ NumberMissing(b.age) THEN 6
    ELSE 0

C1_Message ==
    <<"Please provide email and password",
      "Password must be at least 6 characters long",
      "Role must be either 'parent' or 'kid'",
      "Family code is required for kid signup",
      "Name is required for kid signup",
      "Age is required for kid signup">>

C1_Conflict == "User with this email already exists"

C1_IsOrderedRejection(r) ==
    /\ r.op = "signup"
    /\ \/ r.status = 400 /\ \E k \in 1..6 : r.message = C1_Message[k]
       \/ r.status = 409

C1_Step ==
    \* a request answered at once, before any query, failed one of the checks
    \* (1)..(4) and is answered with the error of the first check it fails
    /\ last'.op = "signup" /\ last' # last /\ procs' = procs
            => /\ C1_FirstFailure(last'.req) # 0
               /\ last'.status = 400
               /\ last'.message = C1_Message[C1_FirstFailure(last'.req)]
    \* a request that goes on to the email query passed the checks (1)..(4),
    \* and none of their errors is sent later
    /\ \A p \in DOMAIN procs :
         procs[p].pc = "idle" /\ procs'[p].pc = "findEmail"
            => C1_FirstFailure(procs'[p].body) = 0
    /\ last'.op = "signup" /\ last' # last /\ procs' # procs
            => ~(last'.status = 400 /\ \E k \in 1..6 : last'.message = C1_Message[k])
    \* check (5): the email query answers 409 exactly when the email is registered
    /\ \A p \in DOMAIN procs :
         procs[p].pc = "findEmail" /\ procs'[p].pc # "findEmail"
            => LET registered == trim(toLowerCase(procs[p].body.email[1]))
                                    \in RegisteredEmails(users)
               IN  /\ registered => /\ last'.op = "signup" /\ last'.req = procs[p].body
                                    /\ last'.status = 409 /\ last'.message = C1_Conflict
                   /\ ~registered => last' = NoResponse
    \* a 409 is only ever sent by that query
    /\ last'.op = "signup" /\ last'.status = 409 /\ last' # last
            => \E p \in DOMAIN procs : procs[p].pc = "findEmail" /\ procs'[p].pc = "idle"
    \* none of these rejections writes a record
    /\ C1_IsOrderedRejection(last') /\ last' # last
            => users' = users /\ kids' = kids

\* C1: every signup is answered by the error of the first check it fails, in
\* the order missing email or password (400), short password (400), bad role
\* (400), kid without family code, name, age (400), email already registered
\* (409); an earlier failure hides every later one and no such rejection
\* writes a User or a Kid.
C1_ValidationOrder == [][C1_Step]_vars

\* A request with a registered email, a short password and a bad role was
\* answered with the short-password error.
C1_Witness ==
    /\ last.op = "signup" /\ last.status = 400
    /\ last.message = "Password must be at least 6 characters long"
    /\ last.req.role = Some("admin")
    /\ ~FieldMissing(last.req.email)
    /\ trim(toLowerCase(last.req.email[1])) \in RegisteredEmails(users)

(***************************************************************************)
(* C2  Email uniqueness is case-insensitive.                               *)
(***************************************************************************)
C2_Normal(email) == trim(toLowerCase(email))

C2_Unique(us) ==
    \A i, j \in 1..Len(us) :
        i # j => C2_Normal(us[i].email) # C2_Normal(us[j].email)

C2_Step ==
    /\ C2_Unique(users) /\ C2_Unique(users')
    \* the signup whose email, normalized, is already registered when its
    \* email query runs is answered 409 and writes nothing
    /\ \A p \in DOMAIN procs :
         /\ procs[p].pc = "findEmail" /\ procs'[p].pc # "findEmail"
         /\ \E i \in 1..Len(users) :
               C2_Normal(users[i].email) = C2_Normal(procs[p].body.email[1])
         => /\ last'.op = "signup" /\ last'.req = procs[p].body /\ last'.status = 409
            /\ users' = users /\ kids' = kids

\* C2: under any interleaving of signups no two stored Users have the same
\* email after lowercasing and trimming, and a signup whose email differs
\* from a registered one only in case or surrounding blanks is answered 409
\* and creates no record.
C2_EmailUniqueness == [][C2_Step]_vars

\* " A@x.co" was refused with 409 while "a@x.co" is registered, during
\* concurrent signups.
C2_Witness ==
    /\ last.op = "signup" /\ last.status = 409
    /\ last.req.email = Some(EmailAUpper)
    /\ \E i \in 1..Len(users) : users[i].email = EmailA
    /\ \E p \in DOMAIN procs : procs[p].pc \in SignupStages

(***************************************************************************)
(* C3  Concurrent parent signups and family codes.                         *)
(***************************************************************************)
\* C3: in every reachable state, under any interleaving of the collision
\* query and the User write of concurrent parent signups, no two parent-role
\* Users hold the same familyCode.
C3_UniqueFamilyCodes ==
    \A i, j \in 1..Len(users) :
        i # j /\ users[i].role = "parent" /\ users[j].role = "parent"
            => users[i].familyCode # users[j].familyCode

(***************************************************************************)
(* C4  Kid signup with an unknown family code.                             *)
(***************************************************************************)
C4_InvalidFamilyCode == "Invalid family code. Please check with your parent."

C4_Held(code, us) == \E i \in 1..Len(us) : us[i].familyCode = code

C4_Step ==
    \A p \in DOMAIN procs :
        /\ procs[p].pc = "findParent" /\ procs'[p] # procs[p]
        /\ ~C4_Held(toUpperCase(procs[p].body.familyCode[1]), users)
        => /\ last'.op = "signup" /\ last'.req = procs[p].body
           /\ last'.status = 400 /\ last'.message = C4_InvalidFamilyCode
           /\ procs'[p].pc = "idle"
           /\ users' = users /\ kids' = kids

\* C4: a kid signup that reaches the family-code lookup with a code that,
\* uppercased, no stored User holds is answered 400 "Invalid family code",
\* ends there, and changes no User (so no kid-identifier set) and no Kid.
C4_UnknownFamilyCode == [][C4_Step]_vars

\* A kid signup was refused for its family code while another family exists.
C4_Witness ==
    /\ last.op = "signup" /\ last.status = 400
    /\ last.message = C4_InvalidFamilyCode
    /\ last.req.role = Some("kid")
    /\ Len(users) > 0
    /\ \A i \in 1..Len(users) : users[i].familyCode # toUpperCase(last.req.familyCode[1])

(***************************************************************************)
(* C5  The user a family code resolves to.                                 *)
(***************************************************************************)
C5_IsParent(id) == id \in 1..Len(users) /\ users[id].role = "parent"

\* C5: the user a kid signup resolves from a family code has role parent:
\* every Kid's parent and every kid-role User's parent is a stored User of
\* role parent, and only parent-role Users have kid identifiers, also after
\* several kid signups with the same family code.
C5_ParentsAreParents ==
    /\ \A p \in DOMAIN procs :
         procs[p].parentUser # None => procs[p].parentUser[1].role = "parent"
    /\ \A k \in kids : C5_IsParent(k.parent)
    /\ \A i \in 1..Len(users) :
         /\ users[i].role = "kid" => C5_IsParent(users[i].parent)
         /\ users[i].kids # <<>> => users[i].role = "parent"

(***************************************************************************)
(* C6  Login.                                                              *)
(***************************************************************************)
\* The digest is the digest of this plaintext under the digest's own salt.
C6_Verifies(plain, digest) == digest = [salt |-> digest.salt, of |-> plain]

C6_Matching(b, us) ==
    {i \in 1..Len(us) :
        /\ us[i].email = trim(toLowerCase(b.email[1]))
        /\ C6_Verifies(b.password[1], us[i].password)}

C6_Step ==
    last'.op = "login" /\ last' # last
        => /\ users' = users /\ kids' = kids /\ nextKid' = nextKid /\ tokens' = tokens
           /\ LET b == last'.req
              IN  ~FieldMissing(b.email) /\ ~FieldMissing(b.password)
                    => IF C6_Matching(b, users) # {}
                       THEN /\ last'.status = 200
                            /\ last'.token # None
                            /\ last'.token[1].id \in C6_Matching(b, users)
                       ELSE /\ last'.status = 401
                            /\ last'.message = "Invalid email or password"
                            /\ last'.token = None

\* C6: a login with both fields answers 200 with a token exactly when a User
\* with the normalized email exists and the password verifies against its
\* digest; otherwise, unknown email or wrong password alike, it answers 401
\* "Invalid email or password"; login changes no stored state.
C6_Login == [][C6_Step]_vars

\* A login with a registered email and another user's password was refused.
C6_Witness ==
    /\ last.op = "login" /\ last.status = 401
    /\ ~FieldMissing(last.req.email) /\ ~FieldMissing(last.req.password)
    /\ \E i, j \in 1..Len(users) :
         /\ users[i].email = trim(toLowerCase(last.req.email[1]))
         /\ ~C6_Verifies(last.req.password[1], users[i].password)
         /\ C6_Verifies(last.req.password[1], users[j].password)

(***************************************************************************)
(* C7  The token of a signup.                                              *)
(***************************************************************************)
\* C7: the token a successful signup returns verifies under the service
\* secret and carries exactly the id and the role of the User this signup
\* created (the one stored under the request's normalized email).
C7_SignupToken ==
    last.op = "signup" /\ last.status = 201
        => /\ last.token # None
           /\ LET t == last.token[1]
              IN  /\ t.secret = JWT_SECRET /\ now < t.exp
                  /\ t.id \in 1..Len(users)
                  /\ users[t.id].email = trim(toLowerCase(last.req.email[1]))
                  /\ t.role = users[t.id].role
                  /\ t.role = (IF last.req.role = Some("kid") THEN "kid" ELSE "parent")
                  /\ last.data[1].id = t.id

\* A kid signup was answered 201 with its token.
C7_Witness ==
    /\ last.op = "signup" /\ last.status = 201
    /\ last.req.role = Some("kid")
    /\ last.token # None /\ last.token[1].role = "kid"

(***************************************************************************)
(* C8  The Access Guard.                                                   *)
(***************************************************************************)
C8_Prefix == <<"B", "e", "a", "r", "e", "r", " ">>

C8_Token(h) == SubSeq(h[1], 8, Len(h[1]))

C8_Signed(token) == Len(token) = 1 /\ token[1].secret = JWT_SECRET

\* The first check a header fails at time t against the stored users us, 0
\* when it passes all: 1 header missing, 2 not "Bearer ...", 3 empty token,
\* 4 bad signature, 5 expired, 6 no User with the verified id.
C8_FirstFailure(h, t, us) ==
    IF h = None \/ h[1] = <<>> THEN 1
    ELSE IF Len(h[1]) < 7 \/ SubSeq(h[1], 1, 7) # C8_Prefix THEN 2
    ELSE IF C8_Token(h) = <<>> THEN 3
    ELSE IF ~C8_Signed(C8_Token(h)) THEN 4
    ELSE IF t >= C8_Token(h)[1].exp THEN 5
    ELSE IF ~(\E i \in 1..Len(us) : us[i]._id = C8_Token(h)[1].id) THEN 6
    ELSE 0

C8_Message ==
    <<"No authorization token provided",
      "Invalid token format. Use: Bearer <token>",
      "No token found",
      "Invalid token",
      "Token has expired",
      "User not found">>

\* The stored User, as the guard attaches it (the digest is not loaded).
C8_Identity(id, us) ==
    [f \in {"_id", "email", "role", "familyCode", "parent", "name", "kids"} |-> us[id][f]]

C8_Step ==
    \* a request the guard answers itself: 401 with the error of the first
    \* check that fails, and no handler runs
    /\ last'.by = "auth" /\ last' # last
         => /\ C8_FirstFailure(last'.req.header, now, users) # 0
            /\ last'.status = 401
            /\ last'.message = C8_Message[C8_FirstFailure(last'.req.header, now, users)]
            /\ procs' = procs /\ users' = users /\ kids' = kids
    \* a request that gets past the guard, to the role check or to a handler,
    \* passed every check
    /\ last'.op \in Routes /\ last'.by # "auth" /\ last' # last /\ procs' = procs
         => C8_FirstFailure(last'.req.header, now, users) = 0
    /\ \A p \in DOMAIN procs :
         procs[p].pc = "idle" /\ procs'[p].pc \in Routes
            => /\ C8_FirstFailure(procs'[p].header, now, users) = 0
               /\ procs'[p].reqUser =
                    Some(C8_Identity(C8_Token(procs'[p].header)[1].id, users))

C9_Header(t) == Some(Bearer \o <<t>>)

C9_Issued == tokens \cup (IF last.token # None THEN {last.token[1]} ELSE {})

C9_State ==
    \* the guard accepts an issued token exactly before its expiry
    /\ \A t \in C9_Issued : auth(C9_Header(t)).pass <=> now < t.exp
    \* and never a token signed with another secret
    /\ \A t \in ForgedTokens : ~auth(C9_Header(t)).pass

C9_Step ==
    /\ C9_State'
    \* the requests that were served: an issued token is let through only
    \* before its expiry and refused only from its expiry on
    /\ \A p \in DOMAIN procs : \A t \in C9_Issued :
         procs[p].pc = "idle" /\ procs'[p].pc \in Routes /\ procs'[p].header = C9_Header(t)
            => now < t.exp
    /\ \A t \in C9_Issued :
         last'.by = "auth" /\ last' # last /\ last'.req.header = C9_Header(t)
            => now >= t.exp /\ last'.message = "Token has expired"
    /\ \A p \in DOMAIN procs :
         procs[p].pc = "idle" /\ procs'[p].pc \in Routes
            => C8_Token(procs'[p].header)[1].secret = JWT_SECRET
    \* logout answers 200 and changes nothing
    /\ last'.op = "logout" /\ last' # last
         => /\ last'.status = 200
            /\ UNCHANGED <<users, kids, nextKid, procs, now, tokens>>

\* C9: a token issued by signup or login is accepted by the guard at every
\* time before its expiry and refused at every time from its expiry on,
\* whatever happened in between (logout answers 200 and changes nothing);
\* a token signed with another secret is refused whatever expiry it claims.
C9_TokenValidity == [][C9_Step]_vars

\* After a logout, one kept token is still accepted and time has passed
\* since it was issued.
C9_Witness ==
    /\ last.op = "logout"
    /\ \E t \in tokens : t.iat < now /\ now < t.exp /\ auth(C9_Header(t)).pass

(***************************************************************************)
(* C10  The Role Check and the kids router.                                *)
(***************************************************************************)
KidHandlerStages ==
    KidRoutes \cup {"addKid.push", "updateKid.save", "deleteKid.pull"}

C10_Step ==
    \* checkRole on a request context
    /\ last'.op = "checkRole" /\ last' # last
         => LET user == last'.req.reqUser
                allowed == {last'.req.allowedRoles[i] : i \in 1..Len(last'.req.allowedRoles)}
            IN  /\ user = None => last'.status = 401
                /\ user # None /\ user[1].role \notin allowed => last'.status = 403
                /\ user # None /\ user[1].role \in allowed => last'.by = "next"
    \* a kid-profile handler starts only behind the guard, for a parent
    /\ \A p \in DOMAIN procs :
         procs[p].pc = "idle" /\ procs'[p].pc \in KidRoutes
            => /\ C8_FirstFailure(procs'[p].header, now, users) = 0
               /\ users[C8_Token(procs'[p].header)[1].id].role = "parent"
               /\ procs'[p].reqUser # None /\ procs'[p].reqUser[1].role = "parent"
    /\ last'.by \in KidRoutes /\ last' # last /\ procs' = procs
         => /\ C8_FirstFailure(last'.req.header, now, users) = 0
            /\ users[C8_Token(last'.req.header)[1].id].role = "parent"
    \* and only such a request is ever inside one
    /\ \A p \in DOMAIN procs :
         procs'[p].pc \in KidHandlerStages
            => procs'[p].reqUser # None /\ procs'[p].reqUser[1].role = "parent"
    \* a request of a user who is no parent is answered 403
    /\ last'.by = "checkRole" /\ last'.op \in KidRoutes /\ last' # last
         => /\ last'.status = 403
            /\ C8_FirstFailure(last'.req.header, now, users) = 0
            /\ users[C8_Token(last'.req.header)[1].id].role # "parent"
            /\ procs' = procs /\ users' = users /\ kids' = kids

\* C10: checkRole answers 401 when no identity is attached and 403 when the
\* attached identity's role is not allowed; so addKid, getKids, getKid,
\* updateKid and deleteKid run only for requests that passed the guard with
\* an identity of role parent.
C10_RoleCheck == [][C10_Step]_vars

\* A kid with a valid token was refused by the kids router.
C10_Witness ==
    /\ last.by = "checkRole" /\ last.op \in KidRoutes /\ last.status = 403
    /\ \E t \in tokens : t.role = "kid" /\ last.req.header = Some(Bearer \o <<t>>)

(***************************************************************************)
(* C11  GET /api/auth/me for an identity that is no longer stored.         *)
(***************************************************************************)
C11_Stored(id, us) == \E i \in 1..Len(us) : us[i]._id = id

\* The header carries a token the service signed, not yet expired, whose id
\* matches no stored User.
C11_ValidForNobody(h) == C8_FirstFailure(h, now, users) = 6

C11_Step ==
    last'.op = "me" /\ last' # last /\ C11_ValidForNobody(last'.req.header)
        => last'.status = 404

C11_AmendedStep ==
    \* the guard loads the identity first: when it finds none it answers 401
    \* "User not found" and getCurrentUser does not run
    /\ last'.op = "me" /\ last'.by = "auth" /\ last' # last
       /\ C11_ValidForNobody(last'.req.header)
         => last'.status = 401 /\ last'.message = "User not found" /\ procs' = procs
    /\ \A p \in DOMAIN procs :
         procs[p].pc = "idle" /\ procs'[p].pc = "me"
            => C11_Stored(C8_Token(procs'[p].header)[1].id, users)
    \* getCurrentUser answers 404 exactly when the identity was removed after
    \* the guard had loaded it, and 200 otherwise
    /\ last'.op = "me" /\ last'.by = "me" /\ last' # last
         => /\ last'.status = IF C11_Stored(C8_Token(last'.req.header)[1].id, users)
                              THEN 200 ELSE 404
            /\ last'.status = 404 => last'.message = "User not found" /\ last'.data = None
            /\ users' = users

C12_Answers(p) ==
    /\ procs[p].pc \in SignupStages /\ procs'[p].pc = "idle"
    /\ last'.op = "signup" /\ last'.req = procs[p].body

\* The signup in slot p is at its email query or at its User write, and a
\* stored User holds its normalized email.
C12_EmailTaken(p) ==
    /\ procs[p].pc \in {"findEmail", "createUser"}
    /\ C2_Normal(procs[p].body.email[1]) \in RegisteredEmails(users)

C12_Step ==
    \A p \in DOMAIN procs :
        C12_Answers(p) /\ C12_EmailTaken(p) => last'.status = 409

\* C12: a signup refused because a stored User holds its normalized email is
\* answered 409, also when that User was written by a concurrent signup
\* after this signup's email query had found nothing; it is never answered
\* 500 or 201.
C12_ConflictUnderRace == [][C12_Step]_vars

(***************************************************************************)
(* C13  A kid signup that answers 201 is complete.                         *)
(***************************************************************************)
C13_Count(seq, x) == Cardinality({i \in 1..Len(seq) : seq[i] = x})

C13_KidSlot(p) == procs[p].pc \in SignupStages /\ procs[p].body.role = Some("kid")

C13_Step ==
    \A p \in DOMAIN procs :
      C13_KidSlot(p) =>
        LET email == C2_Normal(procs[p].body.email[1])
            resolved == procs[p].parentUser[1]._id
        IN
        \* the User write of the signup: one kid-role User more
        /\ procs[p].pc = "createUser" /\ procs'[p].pc = "createKid"
             => /\ Len(users') = Len(users) + 1
                /\ SubSeq(users', 1, Len(users)) = users
                /\ users'[Len(users')].role = "kid"
                /\ users'[Len(users')].email = email
                /\ users'[Len(users')].parent = resolved
                /\ kids' = kids
        \* the Kid write: one Kid more, owned by the resolved user
        /\ procs[p].pc = "createKid" /\ procs'[p].pc = "pushKid"
             => /\ \E k \in kids' \ kids :
                     /\ kids' = kids \cup {k}
                     /\ k.parent = resolved
                     /\ \A j \in kids : j._id # k._id
                     /\ procs'[p].kidDoc = Some(k)
                /\ users' = users
        \* the answer: the Kid's id goes once into the resolved user's kids
        /\ procs[p].pc = "pushKid" /\ procs'[p].pc = "idle"
             => LET kidId == procs[p].kidDoc[1]._id
                IN  /\ last'.op = "signup" /\ last'.status = 201 /\ last'.req = procs[p].body
                    /\ C13_Count(users[resolved].kids, kidId) = 0
                    /\ C13_Count(users'[resolved].kids, kidId) = 1
                    /\ \A i \in 1..Len(users) :
                         i # resolved => users'[i] = users[i]
                    /\ Len(users') = Len(users) /\ kids' = kids
                    /\ Cardinality({i \in 1..Len(users') :
                                      users'[i].email = email /\ users'[i].role = "kid"}) = 1
                    /\ Cardinality({k \in kids' : k._id = kidId /\ k.parent = resolved}) = 1
                    /\ last'.data[1].parentId = resolved
                    /\ last'.data[1].kidId = kidId
                    /\ last'.data[1].id \in 1..Len(users')
                    /\ users'[last'.data[1].id].email = email
        \* the signup writes nothing in its other steps, and answers 201 only
        \* from its last one
        /\ procs[p].pc \in {"findEmail", "findParent"} /\ procs'[p] # procs[p]
             => users' = users /\ kids' = kids
        /\ procs[p].pc # "pushKid" /\ procs'[p].pc = "idle"
             => last'.status # 201

\* C13: a kid signup that answers 201 has by then created one kid-role User,
\* created one Kid whose parent is the user its family code resolved to, and
\* appended that Kid's id once to the resolved user's kids; the answer's
\* parentId is the resolved user's id and its kidId is the Kid's id.
C13_KidSignupComplete == [][C13_Step]_vars

\* A kid signup was answered 201 while another signup was in flight.
C13_Witness ==
    /\ last.op = "signup" /\ last.status = 201 /\ last.req.role = Some("kid")
    /\ last.data[1].kidId \in {k._id : k \in kids}
    /\ last.data[1].parentId \in 1..Len(users)
    /\ \E p \in DOMAIN procs : procs[p].pc \in SignupStages

(***************************************************************************)
(* C14  The two shapes of a stored User.                                   *)
(***************************************************************************)
\* A code of the code space: six characters, each an uppercase hex digit.
C14_IsCode(code) ==
    /\ Len(code) = 6
    /\ \A i \in 1..Len(code) :
         code[i] \in {"0", "1", "2", "3", "4", "5", "6", "7", "8", "9",
                      "A", "B", "C", "D", "E", "F"}

C14_ParentShape(u, us) ==
    u.role = "parent" /\ u.parent = 0 /\ C14_IsCode(u.familyCode)

C14_KidShape(u, us) ==
    /\ u.role = "kid"
    /\ u.parent \in 1..Len(us)
    /\ us[u.parent]._id = u.parent
    /\ u.familyCode = us[u.parent].familyCode

C14_Shapes(us) ==
    \A i \in 1..Len(us) :
        /\ C14_ParentShape(us[i], us) \/ C14_KidShape(us[i], us)
        /\ ~(C14_ParentShape(us[i], us) /\ C14_KidShape(us[i], us))

C14_Step ==
    /\ C14_Shapes(users')
    \* the code of a parent is the one its own signup generated
    /\ \A p \in DOMAIN procs :
         /\ procs[p].pc = "createUser" /\ procs'[p].pc = "idle"
         /\ procs[p].body.role # Some("kid")
         /\ Len(users') = Len(users) + 1
         => /\ users'[Len(users')].role = "parent"
            /\ procs[p].userFamilyCode = Some(users'[Len(users')].familyCode)

\* C14: every stored User has exactly one of the two shapes its role
\* determines: role parent with the family code its own signup generated and
\* no parent reference, or role kid with a parent reference and the family
\* code of the User it refers to.
C14_RoleShapes == [][C14_Step]_vars

\* A parent and a kid of its family are stored.
C14_Witness ==
    \E i, j \in 1..Len(users) :
        /\ users[i].role = "parent" /\ users[j].role = "kid"
        /\ users[j].parent = i /\ users[j].familyCode = users[i].familyCode

(***************************************************************************)
(* C15  What may happen to a stored User.                                  *)
(***************************************************************************)
C15_Kept(i) == i \in 1..Len(users') /\ users'[i] = users[i]

C15_Appended(i) ==
    /\ i \in 1..Len(users')
    /\ \E k \in 1..MaxKids : users'[i] = [users[i] EXCEPT !.kids = Append(@, k)]

C15_Removed(i) ==
    /\ i \in 1..Len(users')
    /\ \E k \in 1..MaxKids :
         /\ \E n \in 1..Len(users[i].kids) : users[i].kids[n] = k
         /\ users'[i] = [users[i] EXCEPT !.kids = SelectSeq(@, LAMBDA x : x # k)]

C15_Step == \A i \in 1..Len(users) : C15_Kept(i) \/ C15_Appended(i)

\* C15 as stated: a stored User is never deleted, its email, password
\* digest, role, familyCode, parent and name never change, and the only
\* change ever made to it is a Kid id appended to its kids.
C15_OnlyAppend == [][C15_Step]_vars

C15_AmendedStep ==
    \A i \in 1..Len(users) : C15_Kept(i) \/ C15_Appended(i) \/ C15_Removed(i)

\* C15, amended: a stored User is never deleted and its email, password
\* digest, role, familyCode, parent and name never change; the only changes
\* made to it are a Kid id appended to its kids (kid signup, addKid) and a
\* Kid id removed from its kids (deleteKid).
C15_AppendOrRemove == [][C15_AmendedStep]_vars

\* deleteKid has removed a Kid id while a stored User holds one Kid id.
C15_Witness ==
    /\ last.op = "deleteKid" /\ last.status = 200
    /\ \E i \in 1..Len(users) : Len(users[i].kids) = 1

(***************************************************************************)
(* C16  deleteKid by the owning parent.                                    *)
(***************************************************************************)
C16_Without(seq, x) == SelectSeq(seq, LAMBDA y : y # x)

C16_Step ==
    \A p \in DOMAIN procs :
      LET caller == procs[p].reqUser[1]._id
          kidId == procs[p].kidId
          owned == {k \in kids : k._id = kidId /\ k.parent = caller}
      IN
      \* the Kid exists and is the caller's: its record is removed, no other
      /\ procs[p].pc = "deleteKid" /\ procs'[p] # procs[p] /\ owned # {}
           => /\ procs'[p].pc = "deleteKid.pull"
              /\ kids' = kids \ owned
              /\ \A k \in kids : k._id # kidId => k \in kids'
              /\ users' = users
      \* then its id leaves the caller's kids, every other id stays in place,
      \* and the answer is 200
      /\ procs[p].pc = "deleteKid.pull" /\ procs'[p] # procs[p]
           => /\ last'.op = "deleteKid" /\ last'.status = 200
              /\ procs'[p].pc = "idle"
              /\ users'[caller].kids = C16_Without(users[caller].kids, kidId)
              /\ users' = [users EXCEPT ![caller].kids = users'[caller].kids]
              /\ kids' = kids
              /\ \A k \in kids' : k._id # kidId
      \* deleteKid answers 200 in no other way
      /\ last'.op = "deleteKid" /\ last'.status = 200 /\ last' # last
           => \E q \in DOMAIN procs : procs[q].pc = "deleteKid.pull"

\* C16: deleteKid by the parent who owns an existing Kid answers 200, removes
\* that Kid record and removes its id from the parent's kids, and leaves
\* every other Kid record and every other id of the parent's kids unchanged.
C16_DeleteKid == [][C16_Step]_vars

\* One of a parent's two Kids was deleted; the other is still stored and
\* still listed.
C16_Witness ==
    /\ last.op = "deleteKid" /\ last.status = 200
    /\ \E k \in kids :
         /\ k.parent = C8_Token(last.req.header)[1].id
         /\ users[k.parent].kids = <<k._id>>

(***************************************************************************)
(* C17  Kid-profile operations act on the caller's own Kids only.          *)
(***************************************************************************)
C17_ByIdRoutes == {"getKid", "updateKid", "deleteKid"}

C17_Step ==
    \A p \in DOMAIN procs :
      LET caller == procs[p].reqUser[1]._id
          mine == {k \in kids : k.parent = caller}
          foreign == {k \in kids : k._id = procs[p].kidId /\ k.parent # caller}
      IN
      \* getKids lists the caller's Kids, each once, and no other
      /\ procs[p].pc = "getKids" /\ procs'[p] # procs[p]
           => /\ last'.op = "getKids" /\ last'.status = 200
              /\ {last'.data[1][i] : i \in 1..Len(last'.data[1])} = mine
              /\ Len(last'.data[1]) = Cardinality(mine)
              /\ users' = users /\ kids' = kids
      \* a Kid of another parent is answered as if it did not exist
      /\ procs[p].pc \in C17_ByIdRoutes /\ procs'[p] # procs[p] /\ foreign # {}
           => /\ last'.op = procs[p].pc /\ last'.status = 404
              /\ last'.message = "Kid not found"
              /\ last'.data = None
              /\ procs'[p].pc = "idle"
              /\ users' = users /\ kids' = kids
      \* and what these routes answer with is a Kid of the caller
      /\ procs[p].pc \in {"getKid", "updateKid.save"} /\ procs'[p] # procs[p]
         /\ last'.data # None
           => last'.data[1].parent = caller /\ last'.data[1]._id = procs[p].kidId

\* C17: getKids returns exactly the Kids whose parent is the caller; getKid,
\* updateKid and deleteKid called by a parent with the id of a Kid of
\* another parent answer 404, return nothing of that Kid and leave every Kid
\* and User record unchanged.
C17_OwnKidsOnly == [][C17_Step]_vars

\* A parent asked to delete a Kid, every stored Kid is another parent's, a
\* Kid is stored under every id that can be asked for, and the answer was 404.
C17_Witness ==
    /\ last.op = "deleteKid" /\ last.status = 404
    /\ \A id \in KidIdInputs :
         \E k \in kids : k._id = id /\ k.parent # C8_Token(last.req.header)[1].id

(***************************************************************************)
(* C18  The family-code generation loop.                                   *)
(***************************************************************************)
C18_Digits == <<"1", "2", "3", "4", "5", "6", "7", "8", "9">>

\* The code space.
C18_Codes == {<<"A", "B", "C", "D", "E", C18_Digits[i]>> : i \in 1..NumCodes}

C18_Held(us) == {us[i].familyCode : i \in 1..Len(us)}

C18_Looping == \E p \in DOMAIN procs : procs[p].pc = "genCode"

C18_Step ==
    \A p \in DOMAIN procs :
      procs[p].pc = "genCode" =>
        \* the loop is left only with a code of the code space no User held
        \* when the collision query ran
        /\ procs'[p].pc # "genCode"
             => /\ procs'[p].pc = "createUser"
                /\ procs'[p].userFamilyCode # None
                /\ procs'[p].userFamilyCode[1] \in C18_Codes \ C18_Held(users)
        \* with every code in use the loop goes on, and nothing is answered
        /\ C18_Codes \subseteq C18_Held(users)
             => procs'[p].pc = "genCode" /\ last' = NoResponse /\ users' = users

\* C18: the code loop of a parent signup is left only with a code that no
\* User held when its collision query ran; when every code of the code space
\* is in use the signup never answers; and with a generator that keeps
\* returning every code, a signup that is in the loop while some code is
\* free leaves the loop and answers.
C18_CodeLoop ==
    /\ [][C18_Step]_vars
    /\ (C18_Looping /\ ~(C18_Codes \subseteq C18_Held(users)))
          ~> (last.op = "signup" /\ last.status # 0)

\* The loop has drawn a code that is in use, and another code is free.
C18_Witness ==
    \E p \in DOMAIN procs :
        /\ procs[p].pc = "genCode"
        /\ procs[p].userFamilyCode # None
        /\ procs[p].userFamilyCode[1] \in C18_Held(users)
        /\ ~(C18_Codes \subseteq C18_Held(users))

(***************************************************************************)
(* C19  The kids of a User and the Kid records.                            *)
(***************************************************************************)
C19_Listed(u) == {u.kids[n] : n \in 1..Len(u.kids)}

C19_Owned(u) == {k._id : k \in {j \in kids : j.parent = u._id}}

\* C19: whenever no request is in flight, the kids of every stored User are
\* exactly the ids of the stored Kids whose parent it is, each once, after
\* any kid signups, addKid and deleteKid calls, interleaved or not.
C19_KidsConsistent ==
    (\A p \in DOMAIN procs : procs[p].pc = "idle")
        => \A i \in 1..Len(users) :
             /\ C19_Listed(users[i]) = C19_Owned(users[i])
             /\ Len(users[i].kids) = Cardinality(C19_Listed(users[i]))

(***************************************************************************)
(* C20  A signup that answers with an error.                               *)
(***************************************************************************)
C20_Errors == {400, 409, 500}

\* The stages of a signup at which it has written nothing yet.
C20_BeforeWrites == {"findEmail", "findParent", "genCode", "createUser"}

C20_Step ==
    /\ last'.op = "signup" /\ last'.status \in C20_Errors /\ last' # last
         => /\ users' = users /\ kids' = kids
            \* the error comes before the signup has written anything
            /\ \A p \in DOMAIN procs :
                 procs[p].pc \in SignupStages /\ procs'[p].pc = "idle"
                    => procs[p].pc \in C20_BeforeWrites
            \* so a refused email that was free before the request still is
            /\ \A p \in DOMAIN procs :
                 /\ procs[p].pc \in SignupStages /\ procs'[p].pc = "idle"
                 /\ last'.status = 400
                 => C2_Normal(procs[p].body.email[1]) \notin RegisteredEmails(users')

\* C20: a signup answered 400, 409 or 500 leaves the stored Users and Kids
\* as they were before the request; a kid signup with a valid family code
\* whose name or age the Kid schema refuses stores no User, and its email
\* can sign up afterwards.
C20_ErrorWritesNothing == [][C20_Step]_vars

====
